---- MODULE Spec2Model ----
(***************************************************************************)
(* mini-docker: model of app/main.go.                                      *)
(*                                                                         *)
(* One run of the tool is a sequential process.  Its position (pc) moves   *)
(* through main(): usage check, token request, manifest-list request,      *)
(* platform-manifest request, jail creation, one blob request and one      *)
(* extraction per layer, provisioning of the target binary, chroot, chdir, *)
(* process creation, wait, exit.  The registry, the host filesystem and    *)
(* the target process are the environment: what they answer is drawn       *)
(* nondeterministically from small sets at the step that consumes it.      *)
(*                                                                         *)
(* A Go string is a sequence of symbols; the empty string is << >>.        *)
(***************************************************************************)
EXTENDS Integers, Sequences, FiniteSets, TLC

VARIABLES
    args,        \* os.Args
    pc,          \* position of the run inside main()
    exitStatus,  \* exit status of the tool's process, NotExited while it runs
    imageName,   \* main: imageName
    imageVersion,\* main: imageVersion
    command,     \* main: command (os.Args[3])
    token,       \* main: token
    manifest,    \* main: manifest.Layers
    layerIdx,    \* getAllLayers: index of the loop variable layer (1-based)
    requests,    \* registry requests issued so far, in order
    resp,        \* the last registry response received
    extracted,   \* digests of the layers extractTarGz has completed, in order
    openStreams, \* response bodies of getAllLayers not yet closed
    jailExists,  \* the directory made by os.MkdirTemp exists on the host
    jailMade,    \* os.MkdirTemp has succeeded in this run
    binary,      \* where the target binary in the jail comes from
    confined,    \* syscall.Chroot has succeeded
    cwd,         \* working directory of the launcher
    child,       \* the target process
    fs,          \* the host's filesystem, the jail included
    tape,        \* archive entries extractTarGz has read, with their layer
    events       \* what the run has done so far, in order

\* the temporary directory of the host shared by concurrent invocations: the
\* jail directories in it, and per invocation its stage, its jail, the
\* names it tried and the jails it wrote into
VARIABLES tempDirs, runPc, chrootDirOf, runTries, written

hostVars == <<tempDirs, runPc, chrootDirOf, runTries, written>>

runVars == <<args, pc, exitStatus, imageName, imageVersion, command, token,
             manifest, layerIdx, requests, resp, extracted, openStreams,
             jailExists, jailMade, binary, confined, cwd, child, fs, tape,
             events>>

vars == <<runVars, hostVars>>

(***************************************************************************)
(* Bounds                                                                  *)
(***************************************************************************)
MaxEntries == 2     \* entries of a manifest list
MaxLayers == 2      \* layers of a platform manifest
MaxTries == 2       \* names os.MkdirTemp tries before it gives up
MaxRefLen == 4      \* symbols of an image reference
MaxTape == 3        \* archive entries read in one run, entry by entry

(***************************************************************************)
(* Strings and small helpers                                               *)
(***************************************************************************)
EmptyString == << >>
RUN == <<"r", "u", "n">>
PS == <<"p", "s">>
LATEST == <<"latest">>
LIBRARY == <<"library", "/">>
PROGRAM == <<"mydocker">>
NotExited == -1

\* strings.Contains(s, c) for a one-symbol separator c
Contains(s, c) == \E i \in 1..Len(s) : s[i] = c

\* index of the first occurrence of c in s from position i on, Len(s)+1 if none
RECURSIVE IndexFrom(_, _, _)
IndexFrom(s, c, i) ==
    IF i > Len(s) THEN Len(s) + 1
    ELSE IF s[i] = c THEN i
    ELSE IndexFrom(s, c, i + 1)

\* strings.Split(s, c) for a one-symbol separator c
RECURSIVE Split(_, _)
Split(s, c) ==
    LET i == IndexFrom(s, c, 1)
    IN  IF i > Len(s) THEN <<s>>
        ELSE <<SubSeq(s, 1, i - 1)>> \o Split(SubSeq(s, i + 1, Len(s)), c)

\* all sequences over S of length 0..n
SeqUpTo(S, n) == UNION {[1..k -> S] : k \in 0..n}

\* encoding/json into a struct: a field absent from the object keeps its
\* zero value
Field(obj, name, zero) == IF name \in DOMAIN obj THEN obj[name] ELSE zero

(***************************************************************************)
(* The environment's alphabets                                             *)
(***************************************************************************)
\* image references given on the command line
ImageStrings == { <<"alpine">>, <<"alpine", ":", "3">> }

\* target paths given on the command line
Commands == { <<"/", "bin", "/", "sh">> }

\* os.Args: every prefix of `mydocker <sub> <image> <command>`
FullInvocations ==
    { <<PROGRAM, sub, img, cmd>> : sub \in {RUN, PS}, img \in ImageStrings,
                                   cmd \in Commands }
Invocations ==
    { SubSeq(full, 1, n) : full \in FullInvocations, n \in 1..4 }

\* http.StatusOK
StatusOK == 200
Statuses == {StatusOK, 404}

\* runtime.GOOS, runtime.GOARCH
systemOS == "linux"
systemArch == "amd64"

NoBody == [json |-> FALSE]
NoResponse == [neterr |-> FALSE, status |-> 0, body |-> NoBody]
TransportError == [neterr |-> TRUE, status |-> 0, body |-> NoBody]

\* bodies the auth endpoint may send: not JSON, JSON without a token,
\* JSON with a token
AuthBodies ==
    { NoBody, [json |-> TRUE], [json |-> TRUE, token |-> <<"tok">>] }

\* entries a manifest list may carry
PlatformEntries ==
    { [digest |-> <<"sha256:A">>, os |-> "linux", architecture |-> "amd64"],
      [digest |-> <<"sha256:B">>, os |-> "linux", architecture |-> "arm64"],
      [digest |-> <<"sha256:C">>, os |-> "windows", architecture |-> "amd64"],
      [digest |-> <<"sha256:D">>, os |-> "linux", architecture |-> "amd64"] }

ManifestListBodies ==
    { NoBody, [json |-> TRUE] } \cup
    { [json |-> TRUE, manifests |-> l] : l \in SeqUpTo(PlatformEntries, MaxEntries) }

\* layer descriptors a platform manifest may carry; a descriptor without a
\* digest field decodes to the empty digest
LayerDigests == { EmptyString, <<"sha256:1">>, <<"sha256:2">> }
LayerEntries == { [digest |-> d] : d \in LayerDigests }

ManifestBodies ==
    { NoBody, [json |-> TRUE] } \cup
    { [json |-> TRUE, layers |-> l] : l \in SeqUpTo(LayerEntries, MaxLayers) }

Responses(bodies) ==
    { TransportError } \cup
    { [neterr |-> FALSE, status |-> s, body |-> b] : s \in Statuses, b \in bodies }

\* a blob response body is a byte stream, its content is judged by
\* extractTarGz
BlobResponses ==
    { TransportError } \cup
    { [neterr |-> FALSE, status |-> s, body |-> NoBody] : s \in Statuses }

(***************************************************************************)
(* Pure functions of main.go                                               *)
(***************************************************************************)
\* a usage check that forgets the subcommand
UsageOkAnySubcommand(a) == ~(Len(a) < 4)

\* main: the usage check on os.Args (Go indexes from 0)
UsageOk(a) == ~(Len(a) < 4 \/ a[2] # RUN)

getImageNameAndVersion(imageString) ==
    IF ~Contains(imageString, ":")
    THEN [name |-> imageString, version |-> LATEST]
    ELSE LET parts == Split(imageString, ":")
         IN  [name |-> parts[1], version |-> parts[2]]

\* getAuthToken: the repository named in the scope of the token request
AuthRepo(name) == IF ~Contains(name, "/") THEN LIBRARY \o name ELSE name

\* getManifestUrl, getImageManifest, getAllLayers: the repository of the URL
RegistryRepo(name) == LIBRARY \o name

TokenRequest(name) ==
    [kind |-> "token", repo |-> AuthRepo(name), ref |-> EmptyString]
ManifestListRequest(name, version) ==
    [kind |-> "manifestList", repo |-> RegistryRepo(name), ref |-> version]
ManifestRequest(name, digest) ==
    [kind |-> "manifest", repo |-> RegistryRepo(name), ref |-> digest]
BlobRequest(name, digest) ==
    [kind |-> "blob", repo |-> RegistryRepo(name), ref |-> digest]

Failure == [err |-> TRUE]

\* getAuthToken, from the response on
getAuthToken(r) ==
    IF r.neterr THEN Failure
    ELSE IF r.status # StatusOK THEN Failure
    ELSE IF ~r.body.json THEN Failure
    ELSE [err |-> FALSE, token |-> Field(r.body, "token", EmptyString)]

\* a platform test that looks at the operating system alone
PlatformMatchesOsOnly(m) == m.os = systemOS

\* getManifestUrl: the test of one manifest-list entry
PlatformMatches(m) == m.architecture = systemArch /\ m.os = systemOS

\* getManifestUrl: the scan of manifestList.Manifests from entry i on
RECURSIVE ScanManifests(_, _)
ScanManifests(list, i) ==
    IF i > Len(list) THEN Failure
    ELSE IF PlatformMatches(list[i]) THEN [err |-> FALSE, digest |-> list[i].digest]
    ELSE ScanManifests(list, i + 1)

\* a resolution that falls back to the first entry when none matches
getManifestUrlFallback(r) ==
    IF r.neterr THEN Failure
    ELSE IF r.status # StatusOK THEN Failure
    ELSE IF ~r.body.json THEN Failure
    ELSE LET list == Field(r.body, "manifests", << >>)
             found == ScanManifests(list, 1)
         IN  IF found.err /\ Len(list) > 0
             THEN [err |-> FALSE, digest |-> list[1].digest]
             ELSE found

\* getManifestUrl, from the response on
getManifestUrl(r) ==
    IF r.neterr THEN Failure
    ELSE IF r.status # StatusOK THEN Failure
    ELSE IF ~r.body.json THEN Failure
    ELSE ScanManifests(Field(r.body, "manifests", << >>), 1)

\* getImageManifest, from the response to the platform-manifest request on;
\* the status of the response is not read
getImageManifest(r) ==
    IF r.neterr THEN Failure
    ELSE IF ~r.body.json THEN Failure
    ELSE [err |-> FALSE, layers |-> Field(r.body, "layers", << >>)]

\* a loop that walks the layers from the last to the first
LayerAtReversed(layers, i) == layers[Len(layers) - i + 1]

\* getAllLayers: the layer of iteration i of `range manifest.Layers`
LayerAt(layers, i) == layers[i]

\* getAllLayers: the verdict on a blob response before extraction
BlobAccepted(r) == ~r.neterr /\ r.status = StatusOK

\* os.ProcessState.ExitCode: the exit code of an exited process, -1 for a
\* process terminated by a signal
ExitCode(ws) == IF ws.kind = "exited" THEN ws.code ELSE -1

\* cmd.Run returns an error unless the process exited with code 0
RunFailed(ws) == ~(ws.kind = "exited" /\ ws.code = 0)

\* the exit status the kernel keeps of the argument of os.Exit
StatusOf(code) == code % 256

\* a relay that reports every failed target as status 1
ExitErrorStatusFixed(ws) == StatusOf(1)

\* main: the exit status after cmd.Run returned an *exec.ExitError
ExitErrorStatus(ws) == StatusOf(ExitCode(ws))

\* a launcher that ignores the error of cmd.Run
LaunchFailureIgnored == StatusOf(0)

\* main: the exit status after cmd.Run failed before the target ran
LaunchFailureStatus == StatusOf(1)

\* the deferred os.RemoveAll(chrootDir): after the root change the path
\* names nothing inside the new root, and the host directory stays
RemoveAllJail(isConfined, exists) == IF isConfined THEN exists ELSE FALSE

\* termination statuses of the target process
Signals == {9, 15}
WaitStatuses ==
    { [kind |-> "exited", code |-> c] : c \in 0..255 } \cup
    { [kind |-> "signaled", signal |-> s] : s \in Signals }

\* a creation request that isolates the process tree alone
CLONE_NEWPID_ONLY == {"CLONE_NEWPID"}

\* main, lines 134-138: cmd.SysProcAttr.Cloneflags
CLONE_FLAGS == {"CLONE_NEWUTS", "CLONE_NEWPID"}
NoChild == [state |-> "none", cloneflags |-> {}]

(***************************************************************************)
(* The filesystem                                                          *)
(*                                                                         *)
(* A path is the sequence of its components from the host's root; the      *)
(* filesystem maps the paths that exist to their nodes.  A node is a       *)
(* directory, a regular file or a symbolic link.                           *)
(***************************************************************************)
\* the directory os.MkdirTemp makes
JailRoot == <<"tmp", "mydocker-jail">>

\* permission bits: 0644 (a file made by os.Create under umask 022), 0755,
\* 0700 (the directory made by os.MkdirTemp)
CreateMode == 420
ExecMode == 493
TempDirMode == 448

\* symbolic links followed in one path resolution before ELOOP
LinkFuel == 4

DirNode(mode) == [type |-> "dir", mode |-> mode]
FileNode(mode, content) == [type |-> "file", mode |-> mode, content |-> content]
LinkNode(target) == [type |-> "link", target |-> target]

\* the components of a path string
RECURSIVE PathComps(_)
PathComps(s) ==
    IF s = << >> THEN << >>
    ELSE IF Head(s) = "/" THEN PathComps(Tail(s))
    ELSE <<Head(s)>> \o PathComps(Tail(s))

\* filepath.Clean of a rooted path: `.` is dropped, `..` removes the
\* component before it and is dropped at the root
RECURSIVE CleanAbs(_, _)
CleanAbs(done, rest) ==
    IF rest = << >> THEN done
    ELSE IF Head(rest) = "." THEN CleanAbs(done, Tail(rest))
    ELSE IF Head(rest) = ".."
         THEN CleanAbs(IF done = << >> THEN done
                       ELSE SubSeq(done, 1, Len(done) - 1), Tail(rest))
    ELSE CleanAbs(Append(done, Head(rest)), Tail(rest))

\* filepath.Join(dir, s) for a rooted directory dir
Join(dir, s) == CleanAbs(<< >>, dir \o PathComps(s))

\* filepath.Dir of a rooted clean path
Dir(p) == IF p = << >> THEN p ELSE SubSeq(p, 1, Len(p) - 1)

\* length of the longest common prefix of two paths, from position i on
RECURSIVE CommonPrefix(_, _, _)
CommonPrefix(a, b, i) ==
    IF i < Len(a) /\ i < Len(b) /\ a[i + 1] = b[i + 1]
    THEN CommonPrefix(a, b, i + 1)
    ELSE i

\* filepath.Rel(base, targ) for two rooted clean paths
Rel(base, targ) ==
    LET k == CommonPrefix(base, targ, 0)
        ups == [i \in 1..(Len(base) - k) |-> ".."]
        r == ups \o SubSeq(targ, k + 1, Len(targ))
    IN  IF r = << >> THEN <<".">> ELSE r

\* the kernel's path walk from directory cur over the components rest, with
\* root as the process's root directory
RECURSIVE Walk(_, _, _, _, _, _)
Walk(f, root, cur, rest, followLast, fuel) ==
    IF rest = << >> THEN [err |-> "OK", path |-> cur]
    ELSE LET c == Head(rest)
             more == Tail(rest)
             nxt == Append(cur, c)
         IN  IF c = "." THEN Walk(f, root, cur, more, followLast, fuel)
             ELSE IF c = ".."
             THEN Walk(f, root, IF cur = root THEN cur ELSE Dir(cur), more,
                       followLast, fuel)
             ELSE IF nxt \notin DOMAIN f
             THEN [err |-> IF more = << >> THEN "OK" ELSE "ENOENT", path |-> nxt]
             ELSE IF f[nxt].type = "link" /\ (more # << >> \/ followLast)
             THEN IF fuel = 0 THEN [err |-> "ELOOP", path |-> nxt]
                  ELSE Walk(f, root, IF f[nxt].target.abs THEN root ELSE cur,
                            f[nxt].target.comps \o more, followLast, fuel - 1)
             ELSE IF more # << >> /\ f[nxt].type # "dir"
             THEN [err |-> "ENOTDIR", path |-> nxt]
             ELSE Walk(f, root, nxt, more, followLast, fuel)

\* os.Stat(p) and os.Lstat(p) of the launcher before the root change
Stat(f, p) ==
    LET w == Walk(f, << >>, << >>, p, TRUE, LinkFuel)
    IN  IF w.err = "OK" /\ w.path \notin DOMAIN f
        THEN [err |-> "ENOENT", path |-> w.path] ELSE w
Lstat(f, p) ==
    LET w == Walk(f, << >>, << >>, p, FALSE, LinkFuel)
    IN  IF w.err = "OK" /\ w.path \notin DOMAIN f
        THEN [err |-> "ENOENT", path |-> w.path] ELSE w

\* the filesystem with node n at path p
Put(f, p, n) == [q \in DOMAIN f \cup {p} |-> IF q = p THEN n ELSE f[q]]

IsPrefix(a, b) == Len(a) <= Len(b) /\ SubSeq(b, 1, Len(a)) = a

\* os.RemoveAll(p)
RemoveAll(f, p) == [q \in {x \in DOMAIN f : ~IsPrefix(p, x)} |-> f[q]]

FsOk(f) == [err |-> FALSE, fs |-> f]
FsErr(f) == [err |-> TRUE, fs |-> f]

\* os.Mkdir(p, mode)
Mkdir(f, p, mode) ==
    LET par == Stat(f, Dir(p))
    IN  IF par.err # "OK" THEN FsErr(f)
        ELSE IF f[par.path].type # "dir" THEN FsErr(f)
        ELSE IF Append(par.path, p[Len(p)]) \in DOMAIN f THEN FsErr(f)
        ELSE FsOk(Put(f, Append(par.path, p[Len(p)]), DirNode(mode)))

\* os.MkdirAll(p, mode)
RECURSIVE MkdirAll(_, _, _)
MkdirAll(f, p, mode) ==
    LET st == Stat(f, p)
    IN  IF st.err = "OK"
        THEN IF f[st.path].type = "dir" THEN FsOk(f) ELSE FsErr(f)
        ELSE IF p = << >> THEN FsErr(f)
        ELSE LET par == MkdirAll(f, Dir(p), mode)
             IN  IF par.err THEN par ELSE Mkdir(par.fs, p, mode)

\* a write that leaves the old bytes beyond the new content in place
WriteFileInPlace(old, new) ==
    IF Len(new) >= Len(old) THEN new
    ELSE new \o SubSeq(old, Len(new) + 1, Len(old))

\* os.Create truncates the file, io.Copy then writes the content
WriteFile(old, new) == new

\* os.Create(p) followed by io.Copy of content and Close
Create(f, p, content) ==
    LET w == Walk(f, << >>, << >>, p, TRUE, LinkFuel)
    IN  IF w.err # "OK" THEN FsErr(f)
        ELSE IF w.path \in DOMAIN f
        THEN IF f[w.path].type # "file" THEN FsErr(f)
             ELSE FsOk(Put(f, w.path,
                      FileNode(f[w.path].mode,
                               WriteFile(f[w.path].content, content))))
        ELSE FsOk(Put(f, w.path, FileNode(CreateMode, WriteFile(<< >>, content))))

\* os.Symlink(target, p)
Symlink(f, target, p) ==
    LET par == Stat(f, Dir(p))
    IN  IF p = << >> THEN FsErr(f)
        ELSE IF par.err # "OK" THEN FsErr(f)
        ELSE IF f[par.path].type # "dir" THEN FsErr(f)
        ELSE IF Append(par.path, p[Len(p)]) \in DOMAIN f THEN FsErr(f)
        ELSE FsOk(Put(f, Append(par.path, p[Len(p)]), LinkNode(target)))

\* os.Chmod(p, mode): follows symbolic links
SetMode(n, mode) ==
    IF n.type = "dir" THEN DirNode(mode) ELSE FileNode(mode, n.content)

\* extractTarGz, lines 370-375: a path that does not exist is passed over
ChmodIfExists(f, p, mode) ==
    LET st == Stat(f, p)
    IN  IF st.err = "ENOENT" THEN FsOk(f)
        ELSE IF st.err # "OK" THEN FsErr(f)
        ELSE FsOk(Put(f, st.path, SetMode(f[st.path], mode)))

\* tar type flags
TypeDir == "5"
TypeReg == "0"
TypeSymlink == "2"
TypeLink == "1"

\* extractTarGz, lines 356-365: the target given to os.Symlink
LinkTarget(targetDir, targetPath, linkname) ==
    [abs |-> FALSE, comps |-> Rel(Dir(targetPath), Join(targetDir, linkname))]

\* extractTarGz, lines 336-368: the switch on the entry's type
ExtractByType(f, targetDir, header) ==
    LET targetPath == Join(targetDir, header.name)
    IN  IF header.typeflag = TypeDir THEN MkdirAll(f, targetPath, header.mode)
        ELSE IF header.typeflag = TypeReg
        THEN Create(f, targetPath, header.content)
        ELSE IF header.typeflag = TypeSymlink
        THEN Symlink(f, LinkTarget(targetDir, targetPath, header.linkname),
                     targetPath)
        ELSE FsOk(f)

\* extractTarGz, lines 336-375: one iteration of the loop; err stands for
\* the panic
ExtractEntry(f, targetDir, header) ==
    LET r == ExtractByType(f, targetDir, header)
    IN  IF r.err THEN r
        ELSE ChmodIfExists(r.fs, Join(targetDir, header.name), header.mode)

\* extractTarGz, lines 327-378: the loop over the entries from entry i on
RECURSIVE ExtractFrom(_, _, _, _)
ExtractFrom(f, targetDir, archive, i) ==
    IF i > Len(archive) THEN FsOk(f)
    ELSE LET r == ExtractEntry(f, targetDir, archive[i])
         IN  IF r.err THEN r ELSE ExtractFrom(r.fs, targetDir, archive, i + 1)

\* a test that sends every target to the copy, found in the jail or not
TargetMissingOrFound(err) == err \in {"ENOENT", "OK"}

\* main, line 96: os.IsNotExist on the error of os.Stat
TargetMissing(err) == err = "ENOENT"

\* the mode copyFile would give the copy if it kept the source's bits
CopiedModeOfSource(srcMode) == srcMode

\* copyFile, line 399: out.Chmod(0755)
CopiedMode(srcMode) == ExecMode

\* copyFile(src, dst): src is resolved by the kernel from the host's root
copyFile(f, src, dst) ==
    LET in == Stat(f, PathComps(src))
    IN  IF in.err # "OK" THEN FsErr(f)
        ELSE LET out == Create(f, dst, << >>)
                 q == Stat(out.fs, dst).path
             IN  IF out.err THEN out
                 ELSE IF f[in.path].type # "file" THEN FsErr(out.fs)
                 ELSE FsOk(Put(out.fs, q,
                             FileNode(CopiedMode(f[in.path].mode),
                                      WriteFile(<< >>, f[in.path].content))))

\* the deferred os.RemoveAll(chrootDir) on the filesystem: after the root
\* change the path names nothing inside the new root
RemoveAllFs(isConfined, f) == IF isConfined THEN f ELSE RemoveAll(f, JailRoot)

\* os.MkdirTemp("", "mydocker-jail")
MkdirTemp(f) == Put(f, JailRoot, DirNode(TempDirMode))

Header(t, n, m, c, l) ==
    [typeflag |-> t, name |-> n, mode |-> m, content |-> c, linkname |-> l]

\* 0444, the mode of a hard-link entry
ReadOnlyMode == 292

BIN == <<"bin">>
BIN_SH == <<"bin", "/", "sh">>
BIN_BUSYBOX == <<"bin", "/", "busybox">>

\* the host: /tmp and the target binary /bin/sh, which need not be executable
HostBinaries ==
    { FileNode(CreateMode, <<"h", "o", "s", "t">>),
      FileNode(ExecMode, <<"h", "o">>) }
HostWith(n) ==
    [p \in {<< >>, <<"tmp">>, <<"bin">>, <<"bin", "sh">>} |->
        IF p = <<"bin", "sh">> THEN n ELSE DirNode(ExecMode)]
HostWithout == [p \in {<< >>, <<"tmp">>, <<"bin">>} |-> DirNode(ExecMode)]
HostFilesystems == { HostWith(n) : n \in HostBinaries } \cup { HostWithout }
HostFs == HostWith(FileNode(CreateMode, <<"h", "o", "s", "t">>))

\* the archives behind the layer digests of the registry
BlobStore(digest) ==
    IF digest = <<"sha256:1">>
    THEN << Header(TypeDir, BIN, ExecMode, << >>, << >>),
            Header(TypeReg, BIN_BUSYBOX, ExecMode, <<"b", "b">>, << >>) >>
    ELSE IF digest = <<"sha256:2">>
    THEN << Header(TypeDir, BIN, ExecMode, << >>, << >>),
            Header(TypeReg, BIN_SH, ExecMode, <<"s">>, << >>) >>
    ELSE << >>

\* archive entries read one by one
TarHeaders ==
    { Header(TypeDir, BIN, ExecMode, << >>, << >>),
      Header(TypeReg, BIN_BUSYBOX, ExecMode, <<"b", "b">>, << >>) } \cup
    { Header(TypeReg, BIN_SH, m, c, << >>) :
        m \in {CreateMode, ExecMode}, c \in { <<"s", "s">>, <<"t">> } } \cup
    { Header(TypeSymlink, BIN_SH, 511, << >>, l) :
        l \in { <<"busybox">>, <<"/", "bin", "/", "busybox">> } } \cup
    { Header(TypeReg, <<"..", "/", "x">>, CreateMode, <<"x">>, << >>),
      Header(TypeLink, BIN_SH, ReadOnlyMode, << >>, BIN_BUSYBOX) }

Tagged(layer, archive) ==
    [i \in 1..Len(archive) |-> [layer |-> layer, header |-> archive[i]]]

(***************************************************************************)
(* The run                                                                 *)
(***************************************************************************)
\* the invocations that share the host, and the names the random suffix of
\* os.MkdirTemp("", "mydocker-jail") can produce
Runs == {1, 2}
TempNames == {"mydocker-jail1", "mydocker-jail2", "mydocker-jail3"}
NoDir == ""

\* one invocation alone: the other invocations have not reached MkdirTemp
SingleRun ==
    /\ tempDirs = {}
    /\ runPc = [r \in Runs |-> "mkdirTemp"]
    /\ chrootDirOf = [r \in Runs |-> NoDir]
    /\ runTries = [r \in Runs |-> 0]
    /\ written = {}

\* a process at the entry of main
NotStarted ==
    /\ pc = "start"
    /\ exitStatus = NotExited
    /\ imageName = EmptyString
    /\ imageVersion = EmptyString
    /\ command = EmptyString
    /\ token = EmptyString
    /\ manifest = << >>
    /\ layerIdx = 0
    /\ requests = << >>
    /\ resp = NoResponse
    /\ extracted = << >>
    /\ openStreams = 0
    /\ jailExists = FALSE
    /\ jailMade = FALSE
    /\ binary = "none"
    /\ confined = FALSE
    /\ cwd = "host"
    /\ child = NoChild
    /\ fs = HostFs
    /\ tape = << >>
    /\ events = << >>

Init ==
    /\ SingleRun
    /\ args \in Invocations
    /\ NotStarted

\* os.Exit(code): the process ends at once, deferred calls do not run
OsExit(code) ==
    /\ pc' = "exited"
    /\ exitStatus' = StatusOf(code)

\* main, lines 45-62, up to the token request of getAuthToken
Start ==
    /\ pc = "start"
    /\ IF ~UsageOk(args)
       THEN /\ OsExit(1)
            /\ UNCHANGED <<imageName, imageVersion, command, requests>>
       ELSE LET nv == getImageNameAndVersion(args[3])
            IN  /\ command' = args[4]
                /\ imageName' = nv.name
                /\ imageVersion' = nv.version
                /\ requests' = Append(requests, TokenRequest(nv.name))
                /\ pc' = "token"
                /\ UNCHANGED exitStatus
    /\ UNCHANGED <<hostVars, args, token, manifest, layerIdx, resp, extracted,
                   openStreams, jailExists, jailMade, binary, confined, cwd,
                   child, fs, tape, events>>

\* getAuthToken from the response on, main lines 63-69, getImageManifest and
\* getManifestUrl up to the manifest-list request
TokenResponse ==
    /\ pc = "token"
    /\ \E r \in Responses(AuthBodies) :
        LET res == getAuthToken(r)
        IN  /\ resp' = r
            /\ IF res.err
               THEN /\ OsExit(1)
                    /\ UNCHANGED <<token, requests>>
               ELSE /\ token' = res.token
                    /\ requests' = Append(requests,
                                     ManifestListRequest(imageName, imageVersion))
                    /\ pc' = "manifestList"
                    /\ UNCHANGED exitStatus
    /\ UNCHANGED <<hostVars, args, imageName, imageVersion, command, manifest, layerIdx,
                   extracted, openStreams, jailExists, jailMade, binary,
                   confined, cwd, child, fs, tape, events>>

\* getManifestUrl from the response on, getImageManifest up to the
\* platform-manifest request
ManifestListResponse ==
    /\ pc = "manifestList"
    /\ \E r \in Responses(ManifestListBodies) :
        LET res == getManifestUrl(r)
        IN  /\ resp' = r
            /\ IF res.err
               THEN /\ OsExit(1)
                    /\ UNCHANGED requests
               ELSE /\ requests' = Append(requests,
                                     ManifestRequest(imageName, res.digest))
                    /\ pc' = "manifest"
                    /\ UNCHANGED exitStatus
    /\ UNCHANGED <<hostVars, args, imageName, imageVersion, command, token, manifest,
                   layerIdx, extracted, openStreams, jailExists, jailMade,
                   binary, confined, cwd, child, fs, tape, events>>

\* getImageManifest from the response on, main lines 70-87 (os.MkdirTemp),
\* getAllLayers up to the first blob request
ManifestResponse ==
    /\ pc = "manifest"
    /\ \E r \in Responses(ManifestBodies), mkdirTempOk \in BOOLEAN :
        LET res == getImageManifest(r)
        IN  /\ resp' = r
            /\ IF res.err
               THEN /\ OsExit(1)
                    /\ UNCHANGED <<manifest, layerIdx, requests, jailExists,
                                   jailMade, fs, events>>
               ELSE /\ manifest' = res.layers
                    /\ IF ~mkdirTempOk
                       THEN /\ OsExit(1)
                            /\ UNCHANGED <<layerIdx, requests, jailExists,
                                           jailMade, fs, events>>
                       ELSE /\ jailExists' = TRUE
                            /\ jailMade' = TRUE
                            /\ fs' = MkdirTemp(fs)
                            /\ UNCHANGED exitStatus
                            /\ IF Len(res.layers) = 0
                               THEN /\ pc' = "ensure"
                                    /\ events' = events \o
                                         <<"jailCreated", "layersApplied">>
                                    /\ UNCHANGED <<layerIdx, requests>>
                               ELSE /\ layerIdx' = 1
                                    /\ requests' = Append(requests,
                                         BlobRequest(imageName,
                                                     LayerAt(res.layers, 1).digest))
                                    /\ events' = Append(events, "jailCreated")
                                    /\ pc' = "blob"
    /\ UNCHANGED <<hostVars, args, imageName, imageVersion, command, token, extracted,
                   openStreams, binary, confined, cwd, child, tape>>

\* getAllLayers, lines 296-306: the blob response; its body is closed only
\* when getAllLayers returns (defer inside the loop)
BlobResponse ==
    /\ pc = "blob"
    /\ \E r \in BlobResponses :
        /\ resp' = r
        /\ IF r.neterr
           THEN /\ OsExit(1)
                /\ UNCHANGED openStreams
           ELSE IF ~BlobAccepted(r)
           THEN /\ OsExit(1)
                /\ openStreams' = 0
           ELSE /\ openStreams' = openStreams + 1
                /\ pc' = "extract"
                /\ UNCHANGED exitStatus
    /\ UNCHANGED <<hostVars, args, imageName, imageVersion, command, token, manifest,
                   layerIdx, requests, extracted, jailExists, jailMade, binary,
                   confined, cwd, child, fs, tape, events>>

\* a panic: the deferred calls run (the bodies are closed, os.RemoveAll of
\* the jail), then the runtime ends the process with status 2
Panic(f) ==
    /\ pc' = "exited"
    /\ exitStatus' = 2
    /\ openStreams' = 0
    /\ jailExists' = RemoveAllJail(confined, jailExists)
    /\ fs' = RemoveAllFs(confined, f)
    /\ events' = Append(events, "panic")

\* getAllLayers, lines 308-314, after extractTarGz has returned nil: the
\* next iteration's blob request, or the return to main
LayerDone ==
    /\ extracted' = Append(extracted, LayerAt(manifest, layerIdx).digest)
    /\ UNCHANGED <<exitStatus, jailExists>>
    /\ IF layerIdx < Len(manifest)
       THEN /\ layerIdx' = layerIdx + 1
            /\ requests' = Append(requests,
                 BlobRequest(imageName, LayerAt(manifest, layerIdx + 1).digest))
            /\ events' = Append(events, "layerExtracted")
            /\ pc' = "blob"
            /\ UNCHANGED openStreams
       ELSE /\ openStreams' = 0
            /\ events' = events \o <<"layerExtracted", "layersApplied">>
            /\ pc' = "ensure"
            /\ UNCHANGED <<layerIdx, requests>>

\* getAllLayers, lines 308-314: extractTarGz on the open stream, then the
\* next iteration's blob request or the return to main.  A decode error is
\* returned; a filesystem failure panics.  The filesystem may fail on its
\* own account (ioFailure) or because of what the archive asks for.
ExtractLayer ==
    /\ pc = "extract"
    /\ \E outcome \in {"ok", "decodeError", "ioFailure"} :
        LET archive == BlobStore(LayerAt(manifest, layerIdx).digest)
            r == ExtractFrom(fs, JailRoot, archive, 1)
        IN  IF outcome = "decodeError"
            THEN /\ OsExit(1)
                 /\ openStreams' = 0
                 /\ events' = Append(events, "extractError")
                 /\ UNCHANGED <<layerIdx, requests, extracted, jailExists, fs,
                                tape>>
            ELSE IF outcome = "ioFailure" \/ r.err
            THEN /\ Panic(r.fs)
                 /\ UNCHANGED <<layerIdx, requests, extracted, tape>>
            ELSE /\ fs' = r.fs
                 /\ tape' = tape \o Tagged(layerIdx, archive)
                 /\ LayerDone
    /\ UNCHANGED <<hostVars, args, imageName, imageVersion, command, token, manifest,
                   resp, jailMade, binary, confined, cwd, child>>

\* main, lines 94-115: os.Stat of the target inside the jail, and the copy
\* of the host's binary when it is not there.  A system call may also fail
\* on the filesystem's own account.
EnsureRunnable ==
    /\ pc = "ensure"
    /\ \E ioFailure \in {"none", "stat", "mkdir", "copy"} :
        LET destPath == Join(JailRoot, command)
            st == Stat(fs, destPath)
            mk == MkdirAll(fs, Dir(destPath), ExecMode)
            cp == copyFile(mk.fs, command, destPath)
        IN  IF ioFailure = "stat"
            THEN /\ OsExit(1)
                 /\ UNCHANGED <<binary, fs, events>>
            ELSE IF ~TargetMissing(st.err)
            THEN IF st.err # "OK"
                 THEN /\ OsExit(1)
                      /\ UNCHANGED <<binary, fs, events>>
                 ELSE /\ binary' = "image"
                      /\ pc' = "chroot"
                      /\ events' = Append(events, "binaryEnsured")
                      /\ UNCHANGED <<exitStatus, fs>>
            ELSE IF ioFailure = "mkdir" \/ mk.err
            THEN /\ OsExit(1)
                 /\ fs' = mk.fs
                 /\ UNCHANGED <<binary, events>>
            ELSE IF ioFailure = "copy" \/ cp.err
            THEN /\ OsExit(1)
                 /\ fs' = cp.fs
                 /\ UNCHANGED <<binary, events>>
            ELSE /\ binary' = "host"
                 /\ fs' = cp.fs
                 /\ pc' = "chroot"
                 /\ events' = Append(events, "binaryEnsured")
                 /\ UNCHANGED exitStatus
    /\ UNCHANGED <<hostVars, args, imageName, imageVersion, command, token, manifest,
                   layerIdx, requests, resp, extracted, openStreams,
                   jailExists, jailMade, confined, cwd, child, tape>>

\* a root change whose failure is not looked at
ChrootUnchecked ==
    /\ pc = "chroot"
    /\ \E ok \in BOOLEAN :
        /\ confined' = ok
        /\ pc' = "chdir"
        /\ events' = IF ok THEN Append(events, "rootChanged") ELSE events
        /\ UNCHANGED exitStatus
    /\ UNCHANGED <<hostVars, args, imageName, imageVersion, command, token, manifest,
                   layerIdx, requests, resp, extracted, openStreams,
                   jailExists, jailMade, binary, cwd, child, fs, tape>>

\* main, lines 118-121: syscall.Chroot
Chroot ==
    /\ pc = "chroot"
    /\ \E ok \in BOOLEAN :
        IF ok
        THEN /\ confined' = TRUE
             /\ pc' = "chdir"
             /\ events' = Append(events, "rootChanged")
             /\ UNCHANGED exitStatus
        ELSE /\ OsExit(1)
             /\ UNCHANGED <<confined, events>>
    /\ UNCHANGED <<hostVars, args, imageName, imageVersion, command, token, manifest,
                   layerIdx, requests, resp, extracted, openStreams,
                   jailExists, jailMade, binary, cwd, child, fs, tape>>

\* a launcher that goes on to the process creation without os.Chdir
ChdirSkipped ==
    /\ pc = "chdir"
    /\ pc' = "launch"
    /\ UNCHANGED <<hostVars, args, exitStatus, imageName, imageVersion, command, token,
                   manifest, layerIdx, requests, resp, extracted, openStreams,
                   jailExists, jailMade, binary, confined, cwd, child, fs,
                   tape, events>>

\* main, lines 124-127: os.Chdir("/")
Chdir ==
    /\ pc = "chdir"
    /\ \E ok \in BOOLEAN :
        IF ok
        THEN /\ cwd' = "/"
             /\ pc' = "launch"
             /\ events' = Append(events, "workdirChanged")
             /\ UNCHANGED exitStatus
        ELSE /\ OsExit(1)
             /\ UNCHANGED <<cwd, events>>
    /\ UNCHANGED <<hostVars, args, imageName, imageVersion, command, token, manifest,
                   layerIdx, requests, resp, extracted, openStreams,
                   jailExists, jailMade, binary, confined, child, fs, tape>>

\* main, lines 130-142: cmd.Run up to the start of the target.  The clone
\* with the namespace flags may fail, and the exec of the target inside the
\* jail may fail; both come back from cmd.Run as an error that is not an
\* *exec.ExitError.
Launch ==
    /\ pc = "launch"
    /\ \E outcome \in {"started", "cloneFailed", "execFailed"} :
        IF outcome = "started"
        THEN /\ child' = [state |-> "running", cloneflags |-> CLONE_FLAGS]
             /\ pc' = "wait"
             /\ events' = Append(events, "processCreated")
             /\ UNCHANGED exitStatus
        ELSE IF outcome = "cloneFailed"
        THEN /\ pc' = "exited"
             /\ exitStatus' = LaunchFailureStatus
             /\ child' = [state |-> "cloneFailed", cloneflags |-> CLONE_FLAGS]
             /\ UNCHANGED events
        ELSE /\ pc' = "exited"
             /\ exitStatus' = LaunchFailureStatus
             /\ child' = [state |-> "execFailed", cloneflags |-> CLONE_FLAGS]
             /\ events' = Append(events, "processCreated")
    /\ UNCHANGED <<hostVars, args, imageName, imageVersion, command, token, manifest,
                   layerIdx, requests, resp, extracted, openStreams,
                   jailExists, jailMade, binary, confined, cwd, fs, tape>>

\* a launcher that starts the target and returns without waiting for it
WaitDetached ==
    /\ pc = "wait"
    /\ pc' = "exited"
    /\ exitStatus' = 0
    /\ UNCHANGED <<hostVars, args, imageName, imageVersion, command, token,
                   manifest, layerIdx, requests, resp, extracted, openStreams,
                   jailExists, jailMade, binary, confined, cwd, child, fs,
                   tape, events>>

\* main, lines 142-149: cmd.Run from the target's termination on
Wait ==
    /\ pc = "wait"
    /\ \E ws \in WaitStatuses :
        /\ child' = [state |-> "terminated", cloneflags |-> child.cloneflags,
                     status |-> ws]
        /\ pc' = "exited"
        /\ events' = Append(events, "targetTerminated")
        /\ IF RunFailed(ws)
           THEN /\ exitStatus' = ExitErrorStatus(ws)
                /\ UNCHANGED <<jailExists, fs>>
           ELSE /\ exitStatus' = 0
                /\ jailExists' = RemoveAllJail(confined, jailExists)
                /\ fs' = RemoveAllFs(confined, fs)
    /\ UNCHANGED <<hostVars, args, imageName, imageVersion, command, token, manifest,
                   layerIdx, requests, resp, extracted, openStreams,
                   jailMade, binary, confined, cwd, tape>>

Next ==
    \/ Start
    \/ TokenResponse
    \/ ManifestListResponse
    \/ ManifestResponse
    \/ BlobResponse
    \/ ExtractLayer
    \/ EnsureRunnable
    \/ Chroot
    \/ Chdir
    \/ Launch
    \/ Wait

Spec == Init /\ [][Next]_vars

(***************************************************************************)
(* The extraction entry by entry                                           *)
(*                                                                         *)
(* The same run, taken from the first call of extractTarGz on, with the    *)
(* archives read one entry at a time: any entry of TarHeaders may come     *)
(* next on the stream, on any of the host filesystems.                     *)
(***************************************************************************)
InitFs ==
    /\ SingleRun
    /\ args = <<PROGRAM, RUN, <<"alpine">>, <<"/", "bin", "/", "sh">> >>
    /\ pc = "extract"
    /\ exitStatus = NotExited
    /\ imageName = <<"alpine">>
    /\ imageVersion = LATEST
    /\ command = <<"/", "bin", "/", "sh">>
    /\ token = <<"tok">>
    /\ manifest = << [digest |-> <<"sha256:1">>], [digest |-> <<"sha256:2">>] >>
    /\ layerIdx = 1
    /\ requests = << TokenRequest(<<"alpine">>),
                     ManifestListRequest(<<"alpine">>, LATEST),
                     ManifestRequest(<<"alpine">>, <<"sha256:A">>),
                     BlobRequest(<<"alpine">>, <<"sha256:1">>) >>
    /\ resp = [neterr |-> FALSE, status |-> StatusOK, body |-> NoBody]
    /\ extracted = << >>
    /\ openStreams = 1
    /\ jailExists = TRUE
    /\ jailMade = TRUE
    /\ binary = "none"
    /\ confined = FALSE
    /\ cwd = "host"
    /\ child = NoChild
    /\ fs \in { MkdirTemp(h) : h \in HostFilesystems }
    /\ tape = << >>
    /\ events = <<"jailCreated">>

\* extractTarGz, lines 327-376: one iteration of the loop on the entry that
\* tarReader.Next returns
ReadEntry ==
    /\ pc = "extract"
    /\ Len(tape) < MaxTape
    /\ \E header \in TarHeaders :
        LET r == ExtractEntry(fs, JailRoot, header)
        IN  IF r.err
            THEN /\ Panic(r.fs)
                 /\ tape' = Append(tape, [layer |-> layerIdx, header |-> header])
            ELSE /\ fs' = r.fs
                 /\ tape' = Append(tape, [layer |-> layerIdx, header |-> header])
                 /\ UNCHANGED <<pc, exitStatus, openStreams, jailExists, events>>
    /\ UNCHANGED <<hostVars, args, imageName, imageVersion, command, token, manifest,
                   layerIdx, requests, resp, extracted, jailMade, binary,
                   confined, cwd, child>>

\* extractTarGz, lines 328-331 and 378: tarReader.Next returns io.EOF and
\* extractTarGz returns nil to getAllLayers
EndOfArchive ==
    /\ pc = "extract"
    /\ LayerDone
    /\ UNCHANGED <<hostVars, args, imageName, imageVersion, command, token, manifest,
                   resp, jailMade, binary, confined, cwd, child, fs, tape>>

NextFs ==
    \/ ReadEntry
    \/ EndOfArchive
    \/ BlobResponse
    \/ EnsureRunnable

SpecFs == InitFs /\ [][NextFs]_vars

(***************************************************************************)
(* Image references: main from its entry to the manifest-list request, on  *)
(* every reference of a small alphabet                                     *)
(***************************************************************************)
RefSymbols == {"a", ":", "/"}

InitRef ==
    /\ SingleRun
    /\ \E ref \in SeqUpTo(RefSymbols, MaxRefLen) :
          args = <<PROGRAM, RUN, ref, <<"/", "bin", "/", "sh">> >>
    /\ NotStarted

NextRef ==
    \/ Start
    \/ TokenResponse

SpecRef == InitRef /\ [][NextRef]_vars

(***************************************************************************)
(* Concurrent invocations: two runs of main on one host, each reduced to   *)
(* what it does to the shared temporary directory                          *)
(***************************************************************************)
\* a creation that takes an existing directory for a new one
NameTakenNever(dirs, name) == FALSE

\* os.Mkdir(name, 0700) inside os.MkdirTemp: EEXIST when the name exists;
\* the test and the creation are one system call
NameTaken(dirs, name) == name \in dirs

InitTemp ==
    /\ args = <<PROGRAM, RUN, <<"alpine">>, <<"/", "bin", "/", "sh">> >>
    /\ NotStarted
    /\ tempDirs \in SUBSET TempNames
    /\ runPc = [r \in Runs |-> "mkdirTemp"]
    /\ chrootDirOf = [r \in Runs |-> NoDir]
    /\ runTries = [r \in Runs |-> 0]
    /\ written = {}

\* main, line 78: os.MkdirTemp draws a name and creates it; on EEXIST it
\* draws again and gives up after a number of tries (main then exits 1)
MkdirTempRun(r) ==
    /\ runPc[r] = "mkdirTemp"
    /\ \E name \in TempNames :
        IF NameTaken(tempDirs, name)
        THEN /\ runTries' = [runTries EXCEPT ![r] = @ + 1]
             /\ runPc' = IF runTries[r] + 1 < MaxTries
                         THEN runPc
                         ELSE [runPc EXCEPT ![r] = "exited"]
             /\ UNCHANGED <<tempDirs, chrootDirOf, written>>
        ELSE /\ tempDirs' = tempDirs \cup {name}
             /\ chrootDirOf' = [chrootDirOf EXCEPT ![r] = name]
             /\ runPc' = [runPc EXCEPT ![r] = "layers"]
             /\ UNCHANGED <<runTries, written>>
    /\ UNCHANGED runVars

\* main, lines 84-115: the layers and the binary are written under
\* chrootDir; an error exits with the jail left behind, a panic runs the
\* deferred os.RemoveAll(chrootDir)
PopulateRun(r) ==
    /\ runPc[r] = "layers"
    /\ \E outcome \in {"ok", "error", "panic"} :
        LET dir == chrootDirOf[r]
        IN  IF outcome = "panic"
            THEN /\ tempDirs' = tempDirs \ {dir}
                 /\ written' = { w \in written : w[2] # dir }
                 /\ runPc' = [runPc EXCEPT ![r] = "exited"]
            ELSE /\ written' = written \cup { <<r, dir>> }
                 /\ runPc' = [runPc EXCEPT
                                ![r] = IF outcome = "ok" THEN "chroot"
                                       ELSE "exited"]
                 /\ UNCHANGED tempDirs
    /\ UNCHANGED <<chrootDirOf, runTries, runVars>>

\* main, lines 118-148: from the root change on the run names nothing
\* outside its jail; the jail stays in the temporary directory
ConfineRun(r) ==
    /\ runPc[r] = "chroot"
    /\ runPc' = [runPc EXCEPT ![r] = "exited"]
    /\ UNCHANGED <<tempDirs, chrootDirOf, runTries, written, runVars>>

NextTemp ==
    \/ \E r \in Runs : MkdirTempRun(r)
    \/ \E r \in Runs : PopulateRun(r)
    \/ \E r \in Runs : ConfineRun(r)

SpecTemp == InitTemp /\ [][NextTemp]_vars

(***************************************************************************)
(* Properties                                                              *)
(***************************************************************************)
Last(q) == q[Len(q)]
Exited == pc = "exited"
BlobRequests == SelectSeq(requests, LAMBDA q : q.kind = "blob")
HostEntry(m) == m.os = "linux" /\ m.architecture = "amd64"

\* C1: when the target was launched and exits on its own with code c in
\* 0..255, the tool's exit status is exactly c.
C1_ExitCodeRelayed ==
    (Exited /\ child.state = "terminated" /\ child.status.kind = "exited")
        => exitStatus = child.status.code

C1_Witness ==
    /\ Exited
    /\ child.state = "terminated"
    /\ child.status = [kind |-> "exited", code |-> 7]
    /\ exitStatus = 7

\* C2: when the target is terminated by a signal, the tool exits with the
\* fallback status 1.
C2_SignalExitsOne ==
    (Exited /\ child.state = "terminated" /\ child.status.kind = "signaled")
        => exitStatus = 1

\* C3: when the launch fails before the target's image replaces the child
\* (the clone with the namespace flags fails, or the exec of the target
\* fails), the tool exits with status 1.
C3_LaunchFailureExitsOne ==
    child.state \in {"cloneFailed", "execFailed"} => (Exited /\ exitStatus = 1)

C3_Witness ==
    /\ Exited
    /\ child.state = "execFailed"
    /\ confined
    /\ exitStatus = 1

\* C4: with fewer than 4 tokens or a first argument other than `run`, the
\* tool exits with status 1 and has no side effect: no registry request, no
\* jail directory, no process.
BadInvocation == Len(args) < 4 \/ args[2] # RUN

C4_UsageErrorNoSideEffect ==
    BadInvocation =>
        /\ requests = << >>
        /\ ~jailMade
        /\ ~jailExists
        /\ child = NoChild
        /\ Exited => exitStatus = 1
        /\ pc \in {"start", "exited"}

C4_Witness ==
    /\ Exited
    /\ exitStatus = 1
    /\ Len(args) = 4
    /\ args[2] = PS

\* C5: a manifest list without an entry for the host's os and architecture
\* makes the resolution fail: no digest is requested, the run exits with
\* status 1, no blob is requested and nothing is written to a jail.
ListWithoutHostEntry(r) ==
    /\ ~r.neterr
    /\ r.status = StatusOK
    /\ r.body.json
    /\ LET list == Field(r.body, "manifests", << >>)
       IN  \A i \in 1..Len(list) : ~HostEntry(list[i])

C5_NoMatchAborts ==
    [][(pc = "manifestList" /\ pc' # "manifestList" /\ ListWithoutHostEntry(resp'))
        => /\ pc' = "exited"
           /\ exitStatus' = 1
           /\ requests' = requests
           /\ BlobRequests' = << >>
           /\ extracted' = << >>
           /\ ~jailMade']_vars

C5_Witness ==
    /\ Exited
    /\ exitStatus = 1
    /\ Len(requests) = 2
    /\ Last(requests).kind = "manifestList"
    /\ ListWithoutHostEntry(resp)
    /\ Len(Field(resp.body, "manifests", << >>)) = MaxEntries

\* C6: the digest the resolution returns is the digest of the first entry of
\* the list whose os and architecture both equal the host's.
C6_FirstExactMatch ==
    [][(pc = "manifestList" /\ pc' = "manifest")
        => LET list == Field(resp'.body, "manifests", << >>)
               d == Last(requests').ref
           IN  \E i \in 1..Len(list) :
                  /\ list[i].digest = d
                  /\ HostEntry(list[i])
                  /\ \A j \in 1..(i - 1) : ~HostEntry(list[j])]_vars

C6_Witness ==
    /\ pc = "manifest"
    /\ Len(Field(resp.body, "manifests", << >>)) = 2
    /\ HostEntry(resp.body.manifests[1])
    /\ HostEntry(resp.body.manifests[2])
    /\ resp.body.manifests[1].digest # resp.body.manifests[2].digest
    /\ Last(requests).ref = resp.body.manifests[1].digest

\* C7: a registry response with a non-success status aborts the run with
\* exit status 1 and no later stage executes.
C7_NonSuccessAborts ==
    (~resp.neterr /\ resp.status \notin {0, StatusOK})
        => (Exited /\ exitStatus = 1)

\* C8: a token is taken only from a success response with a well-formed
\* token payload; any other auth response ends the run with status 1 before
\* a manifest request.
WellFormedTokenResponse(r) ==
    /\ ~r.neterr
    /\ r.status = StatusOK
    /\ r.body.json
    /\ "token" \in DOMAIN r.body
    /\ r.body.token # EmptyString

C8_TokenOnlyFromWellFormed ==
    /\ pc = "manifestList" => WellFormedTokenResponse(resp)
    /\ (Len(requests) = 1 /\ resp # NoResponse /\ ~WellFormedTokenResponse(resp))
          => (Exited /\ exitStatus = 1)

\* C9: every layer descriptor of a manifest that the resolution returned has
\* a non-empty digest, and no blob request is made for an empty digest.
C9_LayerDigestsNonEmpty ==
    /\ \A i \in 1..Len(manifest) : manifest[i].digest # EmptyString
    /\ \A k \in 1..Len(requests) :
          requests[k].kind = "blob" => requests[k].ref # EmptyString

\* C10: the layers are fetched and extracted in manifest order, one at a
\* time: the blob of layer i+1 is requested only after layer i has been
\* extracted, and when all layers are applied each has been fetched and
\* extracted exactly once.
LayersApplied ==
    pc \in {"ensure", "chroot", "chdir", "launch", "wait"} \/ confined

C10_LayersInOrder ==
    /\ Len(BlobRequests) <= Len(manifest)
    /\ Len(extracted) <= Len(BlobRequests)
    /\ Len(BlobRequests) <= Len(extracted) + 1
    /\ \A k \in 1..Len(BlobRequests) : BlobRequests[k].ref = manifest[k].digest
    /\ \A k \in 1..Len(extracted) : extracted[k] = manifest[k].digest
    /\ LayersApplied =>
          /\ Len(BlobRequests) = Len(manifest)
          /\ Len(extracted) = Len(manifest)

C10_Witness ==
    /\ pc = "ensure"
    /\ Len(manifest) = 2
    /\ manifest[1].digest # manifest[2].digest
    /\ extracted = <<manifest[1].digest, manifest[2].digest>>
    /\ Len(BlobRequests) = 2

\* the file that a path inside the jail names for the launcher before the
\* root change
JailStat(f, name) == Stat(f, Join(JailRoot, name))
IsFileAt(f, st) == st.err = "OK" /\ f[st.path].type = "file"

\* C11: when a layer B rewrites a regular file that an earlier layer A
\* wrote with other content, the file has exactly B's content afterwards,
\* also when B's content is the shorter one.
RewritesEarlierLayer(t) ==
    /\ t # << >>
    /\ Last(t).header.typeflag = TypeReg
    /\ \E j \in 1..(Len(t) - 1) :
          /\ t[j].layer < Last(t).layer
          /\ t[j].header.typeflag = TypeReg
          /\ t[j].header.name = Last(t).header.name
          /\ t[j].header.content # Last(t).header.content

C11_LastWriteWins ==
    (jailExists /\ RewritesEarlierLayer(tape))
        => LET st == JailStat(fs, Last(tape).header.name)
           IN  /\ IsFileAt(fs, st)
               /\ fs[st.path].content = Last(tape).header.content

C11_Witness ==
    /\ pc = "ensure"
    /\ RewritesEarlierLayer(tape)
    /\ Len(tape) = 3
    /\ tape[2].header.name = BIN_SH
    /\ tape[2].header.content = <<"s", "s">>
    /\ tape[3].header.content = <<"t">>
    /\ fs[JailRoot \o <<"bin", "sh">>].content = <<"t">>

\* C12: a symbolic link whose target is a file of the link's own directory,
\* written as an absolute path or relative to that directory, resolves to
\* that file when the jail is the root.
SiblingLink(h) ==
    /\ h.typeflag = TypeSymlink
    /\ IF h.linkname[1] = "/"
       THEN Dir(PathComps(h.linkname)) = Dir(PathComps(h.name))
       ELSE Len(PathComps(h.linkname)) = 1 /\ h.linkname[1] \notin {".", ".."}

SiblingOf(h) ==
    JailRoot \o Dir(PathComps(h.name)) \o <<Last(PathComps(h.linkname))>>

C12_SiblingLinkResolves ==
    (/\ jailExists
     /\ tape # << >>
     /\ SiblingLink(Last(tape).header)
     /\ SiblingOf(Last(tape).header) \in DOMAIN fs
     /\ fs[SiblingOf(Last(tape).header)].type = "file")
        => Walk(fs, JailRoot, JailRoot, PathComps(Last(tape).header.name),
                TRUE, LinkFuel)
             = [err |-> "OK", path |-> SiblingOf(Last(tape).header)]

\* C13: when the target path is not in the jail after the layers, a
\* successful ensureRunnable leaves there a copy of the host's file at that
\* path with the executable mode 0755, whatever the host file's mode.
C13_HostBinaryProjected ==
    [][(pc = "ensure" /\ pc' = "chroot"
            /\ JailStat(fs, command).err = "ENOENT")
        => LET st == JailStat(fs', command)
               src == Stat(fs, PathComps(command))
           IN  /\ src.err = "OK"
               /\ IsFileAt(fs', st)
               /\ IsPrefix(JailRoot, st.path)
               /\ fs'[st.path].content = fs[src.path].content
               /\ fs'[st.path].mode = 493
               /\ binary' = "host"]_vars

C13_Witness ==
    /\ pc = "chroot"
    /\ binary = "host"
    /\ fs[<<"bin", "sh">>].mode = CreateMode
    /\ fs[JailRoot \o <<"bin", "sh">>].type = "file"
    /\ fs[JailRoot \o <<"bin", "sh">>].mode = ExecMode
    /\ fs[JailRoot \o <<"bin", "sh">>].content = fs[<<"bin", "sh">>].content
    /\ JailRoot \o <<"bin", "busybox">> \in DOMAIN fs

\* C14: when the target path is in the jail after the layers,
\* ensureRunnable changes nothing: content and mode stay as extracted.
C14_ImageBinaryUntouched ==
    [][(pc = "ensure" /\ JailStat(fs, command).err = "OK") => fs' = fs]_vars

C14_Witness ==
    /\ pc = "chroot"
    /\ binary = "image"
    /\ IsFileAt(fs, JailStat(fs, command))
    /\ fs[JailStat(fs, command).path].mode = CreateMode
    /\ fs[JailStat(fs, command).path].content = <<"t">>
    /\ <<"bin", "sh">> \in DOMAIN fs

\* C15: in a run that creates a target process the jail is created, the
\* layers are applied and the binary ensured, the root is changed, the
\* working directory is changed, and then the process is created, in this
\* order; after the root change the launcher writes nothing and the root
\* stays changed.
StageEvents == SelectSeq(events, LAMBDA e : e # "layerExtracted")

C15_StagesInOrder ==
    [][/\ (child.state = "none" /\ child'.state \in {"running", "execFailed"})
            => /\ StageEvents' = <<"jailCreated", "layersApplied",
                                   "binaryEnsured", "rootChanged",
                                   "workdirChanged", "processCreated">>
               /\ jailMade' /\ confined' /\ cwd' = "/"
               /\ binary' # "none"
               /\ Len(extracted') = Len(manifest')
       /\ confined => (confined' /\ fs' = fs)]_vars

C15_Witness ==
    /\ child.state = "running"
    /\ Len(extracted) = 2
    /\ binary = "host"
    /\ JailRoot \o <<"bin", "sh">> \in DOMAIN fs

\* C16: a failure while extracting a layer (archive decode, directory or
\* file creation, write, link creation, permission change) ends the run
\* with exit status 1 and no later stage runs.
C16_ExtractFailureExitsOne ==
    (events # << >> /\ Last(events) \in {"extractError", "panic"})
        => (Exited /\ exitStatus = 1)

\* C17: when the run completes, the target launched and terminated, the
\* jail directory of the run is no longer on the host.
C17_JailRemovedAtCompletion ==
    (Exited /\ child.state = "terminated")
        => (~jailExists /\ JailRoot \notin DOMAIN fs)

\* C18: the launcher only moves forward through Unconfined, Confined,
\* Isolated, Running target; a failed root change, working-directory change
\* or process creation ends the run with a nonzero status and no later
\* state, and no process exists without the root change.
Rank ==
    IF child.state \in {"running", "terminated"} THEN 3
    ELSE IF child.state = "execFailed" THEN 2
    ELSE IF confined THEN 1
    ELSE 0

EndsNonZero ==
    pc' = "exited" /\ exitStatus' \notin {0, NotExited} /\ Rank' = Rank

C18_ForwardOnly ==
    [][/\ Rank' >= Rank
       /\ pc # "exited"
       /\ (pc = "chroot" /\ ~confined') => EndsNonZero
       /\ (pc = "chdir" /\ cwd' # "/") => EndsNonZero
       /\ (pc = "launch" /\ child'.state = "cloneFailed") => EndsNonZero
       /\ (pc = "launch" /\ child'.state = "execFailed")
             => (pc' = "exited" /\ exitStatus' \notin {0, NotExited})
       /\ child'.state \in {"running", "execFailed", "terminated"}
             => (confined' /\ cwd' = "/")]_vars

C18_Witness ==
    /\ Exited
    /\ exitStatus = 1
    /\ binary # "none"
    /\ ~confined
    /\ child = NoChild

\* C19: when the authentication, the platform resolution or the manifest
\* fetch fails (transport error, non-success status, malformed payload, no
\* matching platform), the run exits with status 1 before any jail
\* mutation: no jail directory, nothing written.
ManifestFetchFailed ==
    /\ pc # "manifest"
    /\ Last(requests).kind = "manifest"
    /\ (resp.neterr \/ resp.status # StatusOK \/ ~resp.body.json)

FailedBeforeJail ==
    /\ requests # << >>
    /\ \/ Exited /\ Last(requests).kind \in {"token", "manifestList"}
       \/ ManifestFetchFailed

C19_NoJailOnResolutionFailure ==
    FailedBeforeJail =>
        /\ Exited
        /\ exitStatus = 1
        /\ ~jailMade
        /\ ~jailExists
        /\ fs = HostFs

\* C20: two invocations running at the same time on one host get distinct
\* jail directories, each created by its own run and never one that
\* existed before, and no run writes into the jail of the other.
Live(r) == runPc[r] \in {"layers", "chroot"}

Created(c) == c.state \in {"running", "execFailed", "terminated"}

C21_NamespacesAtCreation ==
    [][/\ Created(child')
            => {"CLONE_NEWPID", "CLONE_NEWUTS"} \subseteq child'.cloneflags
       /\ child.state # "none" => child'.cloneflags = child.cloneflags
       /\ child'.state = "none" => child'.cloneflags = {}]_vars

C21_Witness ==
    /\ child.state = "running"
    /\ child.cloneflags = {"CLONE_NEWPID", "CLONE_NEWUTS"}
    /\ pc = "wait"

\* C22: every object created, written or re-moded by the extraction of an
\* entry lies inside the jail: no path of the host outside the jail appears,
\* disappears or changes, whatever the entry's name.
OutsideJail(p) == ~IsPrefix(JailRoot, p)

ReadsEntry == pc = "extract" /\ tape' # tape

C22_ExtractionStaysInJail ==
    [][ReadsEntry
        => \A p \in (DOMAIN fs) \cup (DOMAIN fs') :
              OutsideJail(p) =>
                  (p \in DOMAIN fs /\ p \in DOMAIN fs' /\ fs'[p] = fs[p])]_vars

\* C23: an entry of a supported type that names a path already in the jail
\* is extracted without failure, the path is afterwards what the entry
\* declares, and no other path changes.
Supported(h) == h.typeflag \in {TypeDir, TypeReg, TypeSymlink}

Declares(f, p, h) ==
    /\ p \in DOMAIN f
    /\ IF h.typeflag = TypeDir THEN f[p].type = "dir"
       ELSE IF h.typeflag = TypeReg
       THEN f[p].type = "file" /\ f[p].content = h.content
       ELSE f[p].type = "link"

C23_LastWriteWinsEveryType ==
    [][LET h == Last(tape').header
           p == Join(JailRoot, h.name)
       IN  (ReadsEntry /\ Supported(h) /\ p \in DOMAIN fs /\ ~OutsideJail(p))
              => /\ pc' = "extract"
                 /\ Declares(fs', p, h)
                 /\ \A q \in DOMAIN fs :
                       q # p => (q \in DOMAIN fs' /\ fs'[q] = fs[q])]_vars

\* C24: a regular-file entry whose parent directory is not in the jail is
\* extracted without failure: the parents are created and the file has the
\* entry's content and mode.
C24_ParentsCreated ==
    [][LET h == Last(tape').header
           p == Join(JailRoot, h.name)
       IN  (ReadsEntry /\ h.typeflag = TypeReg /\ Dir(p) \notin DOMAIN fs)
              => /\ pc' = "extract"
                 /\ Dir(p) \in DOMAIN fs'
                 /\ p \in DOMAIN fs'
                 /\ fs'[p] = FileNode(h.mode, h.content)]_vars

\* C25: an entry of an unsupported type raises no failure and leaves the
\* jail as it was, also when its name is a path of the jail.
C25_SkippedEntryChangesNothing ==
    [][(ReadsEntry /\ ~Supported(Last(tape').header))
            => (pc' = "extract" /\ fs' = fs)]_vars

\* C26: the mode of a regular file of the jail changes only when a
\* regular-file entry writes that file, and then to the entry's mode.
C26_ModeFromWritingEntry ==
    [][LET h == Last(tape').header
       IN  (ReadsEntry /\ pc' = "extract")
              => \A p \in (DOMAIN fs) \cap (DOMAIN fs') :
                    (/\ fs[p].type = "file"
                     /\ fs'[p].type = "file"
                     /\ fs'[p].mode # fs[p].mode)
                        => /\ h.typeflag = TypeReg
                           /\ JailStat(fs', h.name).path = p
                           /\ fs'[p].mode = h.mode]_vars

\* C27: all requests of one run address the same repository: the one in the
\* scope of the token request is the one in the manifest-list,
\* platform-manifest and blob URLs, with or without a namespace in the name.
NameGiven ==
    \A k \in DOMAIN Split(imageName, "/") : Split(imageName, "/")[k] # EmptyString

C27_OneRepository ==
    NameGiven =>
        \A i, j \in DOMAIN requests : requests[i].repo = requests[j].repo

\* C28: at most one blob response stream is open at any time while the
\* layers are applied.
C28_OneOpenStream == openStreams <= 1

\* C29: once the target process runs, the tool's only step is the wait that
\* ends with the target's termination; the tool never exits with the target
\* still running.
C29_ExitAfterTermination ==
    [][/\ child.state = "running"
            => /\ child'.state = "terminated"
               /\ events' = Append(events, "targetTerminated")
               /\ pc' = "exited"
       /\ pc' = "exited" => child'.state # "running"]_vars

C29_Witness ==
    /\ Exited
    /\ child.state = "terminated"
    /\ child.status.kind = "signaled"
    /\ Last(events) = "targetTerminated"
    /\ events[Len(events) - 1] = "processCreated"

\* C30: parsing an image reference yields a non-empty tag in every case,
\* the whole reference and "latest" when there is no colon, and exactly
\* (name, tag) for a reference name:tag.
Colons(ref) == Len(SelectSeq(ref, LAMBDA x : x = ":"))

C30_ParsedReference ==
    (pc = "token" /\ NameGiven) =>
        LET ref == args[3]
        IN  /\ imageVersion # EmptyString
            /\ Colons(ref) = 0 => (imageName = ref /\ imageVersion = LATEST)
            /\ Colons(ref) = 1 => imageName \o <<":">> \o imageVersion = ref

====
